---------------------------- MODULE Spec2Model ----------------------------
(***************************************************************************)
(* A model of the AI Council MCP server (src/ai_council): configuration    *)
(* loading and validation (ModelManager), the per-backend invocation       *)
(* (call_model), the parallel fan-out under one aggregate deadline         *)
(* (call_models_parallel) and the request facade (_process_ai_council      *)
(* behind handle_call_tool).                                               *)
(*                                                                         *)
(* Texts are sequences of word tokens, so that str.startswith is a real    *)
(* prefix test.  A request argument is abstracted to its length and        *)
(* whether it holds a non-whitespace character.                            *)
(***************************************************************************)
EXTENDS Integers, Sequences, FiniteSets, TLC

VARIABLES
    source,          \* the configuration source handed to ModelManager.__init__
    server,          \* "boot" | "serving" | "exited"  (main / AICouncilServer.__init__)
    config,          \* ModelManager.config once loaded
    fellBack,        \* _load_config returned _get_default_config()
    clients,         \* which AsyncOpenAI clients _init_clients created
    phase,           \* facade state of the request in flight
    args,            \* the request's arguments (context, question)
    models,          \* _process_ai_council: models (the active backends)
    tasks,           \* the gathered call_model tasks, by position
    order,           \* positions in the order their tasks completed
    timedOut,        \* asyncio.wait_for raised TimeoutError for this request
    responses,       \* _process_ai_council: responses
    synth,           \* the synthesis invocation: its state, backend and call count
    remoteCalls,     \* chat-completion requests issued for this request
    result,          \* the JSON result handed back by handle_call_tool
    raised           \* handle_call_tool raised instead of returning a result

vars == <<source, server, config, fellBack, clients, phase, args, models, tasks,
          order, timedOut, responses, synth, remoteCalls, result, raised>>

---------------------------------------------------------------------------
(* Bounds of the model *)

\* the longest backend list a generated configuration document declares
MaxModels == 2

\* the longest backend list of the documents the registry alone is checked on
MaxRegistryModels == 5

(* Program constants *)

MaxContextLen == 10000
MaxQuestionLen == 5000
DefaultMaxModels == 3
DefaultParallelTimeout == 120

---------------------------------------------------------------------------
(* Sequences and texts *)

\* str.startswith on token sequences
StartsWith(text, prefix) ==
    /\ Len(prefix) <= Len(text)
    /\ SubSeq(text, 1, Len(prefix)) = prefix

---------------------------------------------------------------------------
(* Configuration documents *)

ProviderOf(i) == IF i % 2 = 1 THEN "openai" ELSE "openrouter"

\* the i-th backend definition of a generated document; complete: the entry
\* has the five required fields, extra: it has a field ModelConfig does not know
ModelDef(i, en) ==
    [name |-> "model-" \o ToString(i), provider |-> ProviderOf(i),
     model_id |-> "id-" \o ToString(i), code_name |-> "code-" \o ToString(i),
     enabled |-> en, complete |-> TRUE, extra |-> FALSE]

AllSections == {"models", "settings", "api_keys"}

Mapping(ms, cap, timeout, okey, rkey) ==
    [top |-> "mapping", sections |-> AllSections, models_is_list |-> TRUE,
     models |-> ms, max_models |-> cap, parallel_timeout |-> timeout,
     api_keys_is_mapping |-> TRUE, openai_api_key |-> okey,
     openrouter_api_key |-> rkey]

\* _get_default_config
DefaultConfig ==
    Mapping(<<>>, DefaultMaxModels, DefaultParallelTimeout, "", "")

KeySets == { <<"sk-key", "sk-key">>, <<"sk-key", "empty">> }

WellFormedDocs ==
    { Mapping([i \in 1..n |-> ModelDef(i, i \in en)], cap, DefaultParallelTimeout,
              k[1], k[2]) :
        n \in 0..MaxModels, en \in SUBSET (1..MaxModels), cap \in 1..MaxModels,
        k \in KeySets }

TwoModels == <<ModelDef(1, TRUE), ModelDef(2, TRUE)>>

\* documents that parse but are structurally or semantically wrong
BrokenDocs ==
    { [DefaultConfig EXCEPT !.top = "null"],
      [DefaultConfig EXCEPT !.top = "list"],
      [Mapping(TwoModels, 2, 120, "sk-key", "sk-key")
          EXCEPT !.sections = {"models", "settings"}],
      [Mapping(TwoModels, 2, 120, "sk-key", "sk-key")
          EXCEPT !.sections = {"settings", "api_keys"}],
      [Mapping(TwoModels, 2, 120, "sk-key", "sk-key")
          EXCEPT !.api_keys_is_mapping = FALSE],
      [Mapping(TwoModels, 2, 120, "sk-key", "sk-key")
          EXCEPT !.models_is_list = FALSE],
      Mapping(<<ModelDef(1, TRUE), ModelDef(1, TRUE)>>, 2, 120, "sk-key", "sk-key"),
      Mapping(<<[ModelDef(1, TRUE) EXCEPT !.provider = "other"]>>, 2, 120,
              "sk-key", "sk-key"),
      Mapping(<<[ModelDef(1, TRUE) EXCEPT !.complete = FALSE]>>, 2, 120,
              "sk-key", "sk-key"),
      Mapping(TwoModels, 0, 120, "sk-key", "sk-key"),
      Mapping(TwoModels, 2, 0, "sk-key", "sk-key") }

\* documents that pass validation although an enabled entry has an unknown field
ExtraFieldDocs ==
    { Mapping(<<[ModelDef(1, TRUE) EXCEPT !.extra = TRUE]>>, 2, 120,
              "sk-key", "sk-key"),
      Mapping(<<[ModelDef(1, TRUE) EXCEPT !.extra = TRUE], ModelDef(2, TRUE)>>, 2, 120,
              "sk-key", "sk-key") }

Sources ==
    { [kind |-> k, doc |-> DefaultConfig] :
         k \in {"missing", "unreadable", "unparsable"} }
    \cup { [kind |-> "document", doc |-> d] :
              d \in WellFormedDocs \cup BrokenDocs \cup ExtraFieldDocs }

\* the documents the registry alone is checked on: every enabled pattern and
\* cap, at most one entry with an unknown field (x) and at most one entry that
\* repeats the code name of an earlier one (d)
RegistryDocs ==
    { Mapping([i \in 1..n |->
                 [ModelDef(i, i \in en) EXCEPT
                     !.extra = (i = x),
                     !.code_name = IF i = d THEN "code-1" ELSE @]],
              cap, DefaultParallelTimeout, "sk-key", "sk-key") :
        n \in 0..MaxRegistryModels, en \in SUBSET (1..MaxRegistryModels),
        cap \in 1..MaxRegistryModels, x \in 0..2, d \in {0, 2, MaxRegistryModels} }

RegistrySources == { [kind |-> "document", doc |-> d] : d \in RegistryDocs }

---------------------------------------------------------------------------
(* ModelManager: loading and validation *)

ConfigError(msg) == [ok |-> FALSE, error |-> msg]
Loaded(c, fb) == [ok |-> TRUE, config |-> c, fellBack |-> fb]

\* ModelManager._load_config: open, yaml.safe_load, config.get("api_keys", {}),
\* api_keys.items(); FileNotFoundError and every other Exception fall back to the
\* defaults, yaml.YAMLError alone raises ConfigValidationError.
LoadConfig(src) ==
    CASE src.kind = "missing"    -> Loaded(DefaultConfig, TRUE)
      [] src.kind = "unparsable" -> ConfigError("Invalid YAML configuration")
      [] src.kind = "unreadable" -> Loaded(DefaultConfig, TRUE)
      [] OTHER ->
           IF src.doc.top # "mapping"
           THEN Loaded(DefaultConfig, TRUE)          \* config.get: AttributeError
           ELSE IF "api_keys" \in src.doc.sections /\ ~src.doc.api_keys_is_mapping
           THEN Loaded(DefaultConfig, TRUE)          \* api_keys.items: AttributeError
           ELSE Loaded(src.doc, FALSE)

RequiredSections == <<"models", "settings", "api_keys">>
Providers == {"openai", "openrouter"}

\* the per-model loop of _validate_config: required fields, then the duplicate
\* code name, then the provider, model by model; "" when no model is rejected
RECURSIVE ValidateModels(_, _)
ValidateModels(ms, code_names) ==
    IF ms = <<>> THEN ""
    ELSE LET model == Head(ms) IN
         IF ~model.complete THEN "Model missing required field"
         ELSE IF model.code_name \in code_names THEN "Duplicate code name"
         ELSE IF model.provider \notin Providers THEN "Unknown provider"
         ELSE ValidateModels(Tail(ms), code_names \cup {model.code_name})

\* ModelManager._validate_config: "" when the configuration passes
ValidateConfig(c) ==
    IF \E i \in 1..Len(RequiredSections) : RequiredSections[i] \notin c.sections
    THEN "Missing required config section"
    ELSE IF ~c.models_is_list THEN "Models must be a list"
    ELSE IF ValidateModels(c.models, {}) # "" THEN ValidateModels(c.models, {})
    ELSE IF c.max_models < 1 THEN "max_models must be a positive integer"
    ELSE IF c.parallel_timeout < 1 THEN "parallel_timeout must be a positive integer"
    ELSE ""

\* ModelManager._init_clients
InitClients(c) ==
    [openai |-> c.openai_api_key \notin {"", "empty"},
     openrouter |-> c.openrouter_api_key \notin {"", "empty"}]

\* ModelManager.__init__: _load_config, _validate_config, _init_clients
NewModelManager(src) ==
    LET l == LoadConfig(src) IN
    IF ~l.ok THEN l
    ELSE LET v == ValidateConfig(l.config) IN
         IF v # "" THEN ConfigError(v) ELSE l

\* the loop of get_enabled_models: an enabled entry is appended while fewer than
\* max_models are; ModelConfig(**model_data) raises on an unknown field and the
\* entry is logged and skipped
RECURSIVE EnabledUpTo(_, _)
EnabledUpTo(ms, cap) ==
    IF ms = <<>> \/ cap <= 0 THEN <<>>
    ELSE IF Head(ms).enabled /\ ~Head(ms).extra
         THEN <<Head(ms)>> \o EnabledUpTo(Tail(ms), cap - 1)
         ELSE EnabledUpTo(Tail(ms), cap)

\* the enabled entries of the first max_models entries (truncating before
\* filtering)
GetEnabledModelsOfFirst(c) ==
    EnabledUpTo(SubSeq(c.models, 1, IF c.max_models < Len(c.models)
                                     THEN c.max_models ELSE Len(c.models)),
                c.max_models)

\* ModelManager.get_enabled_models
GetEnabledModels(c) == EnabledUpTo(c.models, c.max_models)

---------------------------------------------------------------------------
(* Request arguments *)

Str(n, nb) == [len |-> n, nonblank |-> nb]

\* an empty text, a single space, the longest accepted text and the shortest
\* rejected one
ArgStrings(max) ==
    { Str(0, FALSE), Str(1, FALSE), Str(max, TRUE), Str(max + 1, TRUE) }

\* "not s or not s.strip()"
IsBlank(s) == s.len = 0 \/ ~s.nonblank

NoArgs == [context |-> Str(0, FALSE), question |-> Str(0, FALSE)]

\* the prompt synthesize_responses builds is never blank
SynthesisPrompt == Str(1, TRUE)

\* _validate_input with the length tests off by one (>= for >)
ValidateInputOffByOne(context, question) ==
    IF IsBlank(context) THEN "Context cannot be empty"
    ELSE IF IsBlank(question) THEN "Question cannot be empty"
    ELSE IF context.len >= MaxContextLen THEN "Context too long (max 10,000 characters)"
    ELSE IF question.len >= MaxQuestionLen THEN "Question too long (max 5,000 characters)"
    ELSE ""

\* AICouncilServer._validate_input: "" when the arguments pass
ValidateInput(context, question) ==
    IF IsBlank(context) THEN "Context cannot be empty"
    ELSE IF IsBlank(question) THEN "Question cannot be empty"
    ELSE IF context.len > MaxContextLen THEN "Context too long (max 10,000 characters)"
    ELSE IF question.len > MaxQuestionLen THEN "Question too long (max 5,000 characters)"
    ELSE ""

---------------------------------------------------------------------------
(* ModelManager.call_model *)

\* what the remote chat-completion call can come back with: a content (blank or
\* not), or an error whose message may hold "rate_limit" and may hold "auth"
RemoteOutcomes ==
    { [kind |-> "content", blank |-> b, rate_limit |-> FALSE, auth |-> FALSE] :
         b \in BOOLEAN }
    \cup { [kind |-> "error", blank |-> FALSE, rate_limit |-> r, auth |-> a] :
              r \in BOOLEAN, a \in BOOLEAN }

\* the except clause of call_model: f"Error from {model_config.name}: {str(e)}"
ErrorFrom(model, detail) == <<"Error", "from", model.name>> \o detail

\* the client call_model picks for the backend's provider (None: FALSE)
ClientFor(model, cl) ==
    IF model.provider = "openai" THEN cl.openai
    ELSE IF model.provider = "openrouter" THEN cl.openrouter
    ELSE FALSE

\* call_model without the "if not client" test: the request is issued anyway
CallModelLocalNoClientCheck(model, question, cl) ==
    IF IsBlank(question)
    THEN [dispatch |-> FALSE, text |-> ErrorFrom(model, <<"Question cannot be empty">>)]
    ELSE IF model.provider \notin Providers
    THEN [dispatch |-> FALSE, text |-> ErrorFrom(model, <<"Unknown provider">>)]
    ELSE [dispatch |-> TRUE, text |-> <<>>]

\* call_model up to its await: the checks made before the remote request.
\* dispatch: the request is issued; otherwise text is what call_model returns.
CallModelLocal(model, question, cl) ==
    IF IsBlank(question)
    THEN [dispatch |-> FALSE, text |-> ErrorFrom(model, <<"Question cannot be empty">>)]
    ELSE IF model.provider \notin Providers
    THEN [dispatch |-> FALSE, text |-> ErrorFrom(model, <<"Unknown provider">>)]
    ELSE IF ~ClientFor(model, cl)
    THEN [dispatch |-> FALSE,
          text |-> ErrorFrom(model, <<"No client available for provider">>)]
    ELSE [dispatch |-> TRUE, text |-> <<>>]

\* the inner except clause of call_model: the message it re-raises
ClassifyApiError(model, rate_limit, auth, msg) ==
    IF rate_limit THEN <<"Rate limit exceeded for", model.name>>
    ELSE IF auth THEN <<"Authentication failed for", model.name>>
    ELSE <<"API error for", model.name, msg>>

\* "Received response from" logged for every content, a blank one included
CallModelEventAnyContent(out) ==
    IF out.kind = "content" THEN "received" ELSE "error"

\* the event call_model logs after the remote call: "Received response from"
\* on the success path, "Error calling" in the except clause
CallModelEvent(out) ==
    IF out.kind = "content" /\ ~out.blank THEN "received" ELSE "error"

\* call_model without the test for a blank content: the content is returned
CallModelReturnUnchecked(model, out) ==
    IF out.kind = "content"
    THEN IF out.blank THEN <<>> ELSE <<"Answer", model.model_id>>
    ELSE ErrorFrom(model, ClassifyApiError(model, out.rate_limit, out.auth,
                             "remote error"))

\* call_model from the remote call's return on: the text it returns
CallModelReturn(model, out) ==
    IF out.kind = "content"
    THEN IF out.blank
         THEN ErrorFrom(model, ClassifyApiError(model, FALSE, FALSE,
                                  "Empty response received from model"))
         ELSE <<"Answer", model.model_id>>
    ELSE ErrorFrom(model, ClassifyApiError(model, out.rate_limit, out.auth,
                             "remote error"))

---------------------------------------------------------------------------
(* ModelManager.call_models_parallel *)

NoTask == [st |-> "pending", exc |-> FALSE, text |-> <<>>, events |-> <<>>]

\* waiting for the first task only (FIRST_COMPLETED) instead of for all
AnySettled == \E i \in 1..Len(tasks) : tasks[i].st = "done"

\* asyncio.gather has every task done
AllSettled == \A i \in 1..Len(tasks) : tasks[i].st = "done"

\* the results collected as the tasks complete instead of by position
GatherInCompletionOrder(ts) == [k \in 1..Len(ts) |-> ts[order[k]]]

\* asyncio.gather(*tasks, return_exceptions=True): the results by position
Gather(ts) == [i \in 1..Len(ts) |-> ts[i]]

\* the loop over responses: an exception becomes "Error for model <name>: ..."
FinalResponses(ms, gathered) ==
    [i \in 1..Len(gathered) |->
        IF gathered[i].exc
        THEN <<"Error", "for", "model", ms[i].name>> \o gathered[i].text
        ELSE gathered[i].text]

\* a timeout clause that keeps the text of the tasks already done
TimeoutResponsesKeepingDone(ms) ==
    [i \in 1..Len(ms) |->
        IF tasks[i].st = "done" /\ ~tasks[i].exc THEN tasks[i].text
        ELSE <<"Timeout", "error", "for", "model", ms[i].name>>]

\* the except asyncio.TimeoutError clause
TimeoutResponses(ms) ==
    [i \in 1..Len(ms) |-> <<"Timeout", "error", "for", "model", ms[i].name>>]

---------------------------------------------------------------------------
(* AICouncilServer._process_ai_council and handle_call_tool *)

NoResult == [status |-> "none"]
NoSynth == [st |-> "none", model |-> 0, calls |-> 0, text |-> <<>>, events |-> <<>>]

\* the error_result of handle_call_tool
FailedResult(msg) ==
    [status |-> "failed", error |-> msg, debug |-> [log_file |-> "log"]]

\* r.startswith("Error from") or r.startswith("Timeout error")
IsFailureText(r) ==
    \/ StartsWith(r, <<"Error", "from">>)
    \/ StartsWith(r, <<"Timeout", "error">>)

\* len(valid_responses)
ValidCount(resp) == Cardinality({ i \in 1..Len(resp) : ~IsFailureText(resp[i]) })

Init ==
    /\ source \in Sources
    /\ server = "boot"
    /\ config = DefaultConfig
    /\ fellBack = FALSE
    /\ clients = [openai |-> FALSE, openrouter |-> FALSE]
    /\ phase = "Idle"
    /\ args = NoArgs
    /\ models = <<>>
    /\ tasks = <<>>
    /\ order = <<>>
    /\ timedOut = FALSE
    /\ responses = <<>>
    /\ synth = NoSynth
    /\ remoteCalls = 0
    /\ result = NoResult
    /\ raised = FALSE

\* main: AICouncilServer() builds the ModelManager; ConfigValidationError exits
Startup ==
    /\ server = "boot"
    /\ LET m == NewModelManager(source) IN
       IF m.ok
       THEN /\ server' = "serving"
            /\ config' = m.config
            /\ fellBack' = m.fellBack
            /\ clients' = InitClients(m.config)
       ELSE /\ server' = "exited"
            /\ UNCHANGED <<config, fellBack, clients>>
    /\ UNCHANGED <<raised, source, phase, args, models, tasks, order, timedOut, responses,
                   synth, remoteCalls, result>>

\* handle_call_tool("ai_council", arguments) enters _process_ai_council
HandleCallTool(context, question) ==
    /\ server = "serving"
    /\ phase = "Idle"
    /\ phase' = "Validating"
    /\ args' = [context |-> context, question |-> question]
    /\ models' = <<>>
    /\ tasks' = <<>>
    /\ order' = <<>>
    /\ timedOut' = FALSE
    /\ responses' = <<>>
    /\ synth' = NoSynth
    /\ remoteCalls' = 0
    /\ result' = NoResult
    /\ raised' = FALSE
    /\ UNCHANGED <<source, server, config, fellBack, clients>>

\* handle_call_tool with a name other than "ai_council": raise ValueError
HandleUnknownTool ==
    /\ server = "serving"
    /\ phase = "Idle"
    /\ raised' = TRUE
    /\ UNCHANGED <<source, server, config, fellBack, clients, phase, args, models,
                   tasks, order, timedOut, responses, synth, remoteCalls, result>>

\* _validate_input, get_enabled_models and the creation of the gathered tasks
Validate ==
    /\ phase = "Validating"
    /\ LET v == ValidateInput(args.context, args.question)
           ms == GetEnabledModels(config)
       IN IF v # ""
          THEN /\ phase' = "Failed"
               /\ result' = FailedResult(v)
               /\ UNCHANGED <<models, tasks>>
          ELSE IF ms = <<>>
          THEN /\ phase' = "Failed"
               /\ result' = FailedResult("No enabled models found in configuration")
               /\ UNCHANGED <<models, tasks>>
          ELSE /\ phase' = "Dispatching"
               /\ models' = ms
               /\ tasks' = [i \in 1..Len(ms) |-> NoTask]
               /\ UNCHANGED result
    /\ UNCHANGED <<raised, source, server, config, fellBack, clients, args, order, timedOut,
                   responses, synth, remoteCalls>>

\* a gathered call_model task runs up to its await
TaskStart(i) ==
    /\ phase = "Dispatching"
    /\ i \in 1..Len(tasks)
    /\ tasks[i].st = "pending"
    /\ LET r == CallModelLocal(models[i], args.question, clients) IN
       IF r.dispatch
       THEN /\ tasks' = [tasks EXCEPT ![i].st = "inflight",
                                       ![i].events = <<"calling">>]
            /\ remoteCalls' = remoteCalls + 1
            /\ UNCHANGED order
       ELSE /\ tasks' = [tasks EXCEPT ![i] = [st |-> "done", exc |-> FALSE,
                                               text |-> r.text,
                                               events |-> <<"calling", "error">>]]
            /\ order' = Append(order, i)
            /\ UNCHANGED remoteCalls
    /\ UNCHANGED <<raised, source, server, config, fellBack, clients, phase, args, models,
                   timedOut, responses, synth, result>>

\* the remote call of task i returns and call_model runs to its return
TaskReturns(i, out) ==
    /\ phase = "Dispatching"
    /\ i \in 1..Len(tasks)
    /\ tasks[i].st = "inflight"
    /\ tasks' = [tasks EXCEPT ![i] = [st |-> "done", exc |-> FALSE,
                                      text |-> CallModelReturn(models[i], out),
                                      events |-> Append(tasks[i].events,
                                                        CallModelEvent(out))]]
    /\ order' = Append(order, i)
    /\ UNCHANGED <<raised, source, server, config, fellBack, clients, phase, args, models,
                   timedOut, responses, synth, remoteCalls, result>>

\* task i ends with an exception that call_model did not turn into text;
\* gather(return_exceptions=True) keeps it as that position's result
TaskRaises(i) ==
    /\ phase = "Dispatching"
    /\ i \in 1..Len(tasks)
    /\ tasks[i].st \in {"pending", "inflight"}
    /\ tasks' = [tasks EXCEPT ![i] = [st |-> "done", exc |-> TRUE,
                                      text |-> <<"unexpected exception">>,
                                      events |-> tasks[i].events]]
    /\ order' = Append(order, i)
    /\ UNCHANGED <<raised, source, server, config, fellBack, clients, phase, args, models,
                   timedOut, responses, synth, remoteCalls, result>>

\* _process_ai_council once call_models_parallel has returned resp: the check
\* for valid responses, then on to synthesize_responses
AfterFanOut(resp) ==
    /\ responses' = resp
    /\ IF ValidCount(resp) = 0
       THEN /\ phase' = "Failed"
            /\ result' = FailedResult("All models failed to provide valid responses")
            /\ UNCHANGED synth
       ELSE /\ phase' = "Synthesizing"
            /\ synth' = [synth EXCEPT !.st = "ready"]
            /\ UNCHANGED result

\* every gathered task is done: wait_for returns the gathered results.
\* gather(return_exceptions=True) hands exceptions back as results, so the
\* trailing "except Exception" clause of call_models_parallel has no step here.
FanOutReturns ==
    /\ phase = "Dispatching"
    /\ AllSettled
    /\ AfterFanOut(FinalResponses(models, Gather(tasks)))
    /\ UNCHANGED <<raised, source, server, config, fellBack, clients, args, models, tasks,
                   order, timedOut, remoteCalls>>

\* the gathered tasks awaited without asyncio.wait_for: no deadline ever fires
DeadlineNeverFires == FALSE /\ UNCHANGED vars

\* a deadline that has passed when wait_for is entered: the gathered tasks are
\* cancelled, the ones that have not run their first step included
DeadlineFiresBeforeStart ==
    /\ phase = "Dispatching"
    /\ timedOut' = TRUE
    /\ tasks' = [i \in 1..Len(tasks) |->
                    IF tasks[i].st = "done" THEN tasks[i]
                    ELSE [tasks[i] EXCEPT !.st = "cancelled"]]
    /\ AfterFanOut(TimeoutResponses(models))
    /\ UNCHANGED <<raised, source, server, config, fellBack, clients, args, models, order,
                   remoteCalls>>

\* the aggregate deadline fires before wait_for has returned: the gathered tasks
\* are cancelled and every backend is reported with the timeout text. gather
\* schedules the first step of every task before wait_for arms its timer, and
\* parallel_timeout is at least 1, so the timer's callback runs after those steps
DeadlineFires ==
    /\ phase = "Dispatching"
    /\ \A i \in 1..Len(tasks) : tasks[i].st # "pending"
    /\ timedOut' = TRUE
    /\ tasks' = [i \in 1..Len(tasks) |->
                    IF tasks[i].st = "done" THEN tasks[i]
                    ELSE [tasks[i] EXCEPT !.st = "cancelled"]]
    /\ AfterFanOut(TimeoutResponses(models))
    /\ UNCHANGED <<raised, source, server, config, fellBack, clients, args, models, order,
                   remoteCalls>>

\* ResponseSynthesizer.select_synthesizer_model: the random policy
SelectSynthesizerModel(ms) == 1..Len(ms)

\* synthesize_responses: selects the synthesizer and calls it through
\* call_model(..., is_synthesis=True), up to call_model's await
SynthStart(s) ==
    /\ phase = "Synthesizing"
    /\ synth.st = "ready"
    /\ s \in SelectSynthesizerModel(models)
    /\ LET r == CallModelLocal(models[s], SynthesisPrompt, clients) IN
       IF r.dispatch
       THEN /\ synth' = [st |-> "inflight", model |-> s, calls |-> synth.calls + 1,
                         text |-> <<>>, events |-> <<"calling">>]
            /\ remoteCalls' = remoteCalls + 1
       ELSE /\ synth' = [st |-> "returned", model |-> s, calls |-> synth.calls + 1,
                         text |-> r.text, events |-> <<"calling", "error">>]
            /\ UNCHANGED remoteCalls
    /\ UNCHANGED <<raised, source, server, config, fellBack, clients, phase, args, models,
                   tasks, order, timedOut, responses, result>>

\* the synthesizer's remote call returns; synthesize_responses returns the text
SynthReturns(out) ==
    /\ phase = "Synthesizing"
    /\ synth.st = "inflight"
    /\ synth' = [synth EXCEPT !.st = "returned",
                              !.text = CallModelReturn(models[synth.model], out),
                              !.events = Append(@, CallModelEvent(out))]
    /\ UNCHANGED <<raised, source, server, config, fellBack, clients, phase, args, models,
                   tasks, order, timedOut, responses, remoteCalls, result>>

\* a result whose models_used lists every configured backend
SuccessResultAllConfigured(ms, resp, final_synthesis, reported) ==
    [status |-> "success",
     models_used |-> [i \in 1..Len(config.models) |-> config.models[i].model_id],
     synthesizer_model |-> ms[reported].name,
     final_synthesis |-> final_synthesis,
     total_responses |-> Len(resp),
     valid_responses |-> ValidCount(resp),
     failed_responses |-> Len(resp) - ValidCount(resp),
     debug_log_file |-> "log"]

\* the result _process_ai_council assembles; reported is the backend that
\* select_synthesizer_model returns when the result is built
SuccessResult(ms, resp, final_synthesis, reported) ==
    [status |-> "success",
     models_used |-> [i \in 1..Len(ms) |-> ms[i].model_id],
     synthesizer_model |-> ms[reported].name,
     final_synthesis |-> final_synthesis,
     total_responses |-> Len(resp),
     valid_responses |-> ValidCount(resp),
     failed_responses |-> Len(resp) - ValidCount(resp),
     debug_log_file |-> "log"]

\* _process_ai_council builds the result and returns it
Finish(reported) ==
    /\ phase = "Synthesizing"
    /\ synth.st = "returned"
    /\ reported \in SelectSynthesizerModel(models)
    /\ result' = SuccessResult(models, responses, synth.text, reported)
    /\ phase' = "Done"
    /\ UNCHANGED <<raised, source, server, config, fellBack, clients, args, models, tasks,
                   order, timedOut, responses, synth, remoteCalls>>

\* handle_call_tool has returned the result; the server waits for the next call
Return ==
    /\ phase \in {"Done", "Failed"}
    /\ phase' = "Idle"
    /\ args' = NoArgs
    /\ models' = <<>>
    /\ tasks' = <<>>
    /\ order' = <<>>
    /\ timedOut' = FALSE
    /\ responses' = <<>>
    /\ synth' = NoSynth
    /\ remoteCalls' = 0
    /\ result' = NoResult
    /\ raised' = FALSE
    /\ UNCHANGED <<source, server, config, fellBack, clients>>

Next ==
    \/ Startup
    \/ \E c \in ArgStrings(MaxContextLen), q \in ArgStrings(MaxQuestionLen) :
          HandleCallTool(c, q)
    \/ HandleUnknownTool
    \/ Validate
    \/ \E i \in 1..MaxModels : TaskStart(i)
    \/ \E i \in 1..MaxModels, out \in RemoteOutcomes : TaskReturns(i, out)
    \/ \E i \in 1..MaxModels : TaskRaises(i)
    \/ FanOutReturns
    \/ DeadlineFires
    \/ \E s \in 1..MaxModels : SynthStart(s)
    \/ \E out \in RemoteOutcomes : SynthReturns(out)
    \/ \E r \in 1..MaxModels : Finish(r)
    \/ Return

Spec == Init /\ [][Next]_vars

\* a caller of the registry: get_enabled_models() on the loaded configuration
GetEnabled ==
    /\ server = "serving"
    /\ phase = "Idle"
    /\ models' = GetEnabledModels(config)
    /\ UNCHANGED <<raised, source, server, config, fellBack, clients, phase, args, tasks,
                   order, timedOut, responses, synth, remoteCalls, result>>

RegistryInit ==
    /\ source \in RegistrySources
    /\ server = "boot"
    /\ config = DefaultConfig
    /\ fellBack = FALSE
    /\ clients = [openai |-> FALSE, openrouter |-> FALSE]
    /\ phase = "Idle"
    /\ args = NoArgs
    /\ models = <<>>
    /\ tasks = <<>>
    /\ order = <<>>
    /\ timedOut = FALSE
    /\ responses = <<>>
    /\ synth = NoSynth
    /\ remoteCalls = 0
    /\ result = NoResult
    /\ raised = FALSE

RegistryNext == Startup \/ GetEnabled

\* the backends call_model alone is checked on
InvokerModels ==
    { ModelDef(1, TRUE), ModelDef(2, TRUE),
      [ModelDef(1, TRUE) EXCEPT !.provider = "other"] }

\* one call_model(model, context, question) under every set of clients
InvokerInit ==
    /\ source = [kind |-> "missing", doc |-> DefaultConfig]
    /\ server = "serving"
    /\ config = DefaultConfig
    /\ fellBack = TRUE
    /\ clients \in [openai : BOOLEAN, openrouter : BOOLEAN]
    /\ phase = "Dispatching"
    /\ args \in [context : ArgStrings(MaxContextLen),
                  question : ArgStrings(MaxQuestionLen)]
    /\ models \in { <<m>> : m \in InvokerModels }
    /\ tasks = <<NoTask>>
    /\ order = <<>>
    /\ timedOut = FALSE
    /\ responses = <<>>
    /\ synth = NoSynth
    /\ remoteCalls = 0
    /\ result = NoResult
    /\ raised = FALSE

InvokerNext ==
    \/ TaskStart(1)
    \/ \E out \in RemoteOutcomes : TaskReturns(1, out)

\* call_model on its own: one invocation from its call to its return
InvokerSpec == InvokerInit /\ [][InvokerNext]_vars

\* the registry on its own: a configuration is loaded and then listed
RegistrySpec == RegistryInit /\ [][RegistryNext]_vars

\* The event loop runs every ready step of the request, and the deadline timer
\* of asyncio.wait_for fires; no remote call is bound to return and no caller is
\* bound to send a request.
FairSpec ==
    /\ Spec
    /\ WF_vars(Validate)
    /\ WF_vars(\E i \in 1..MaxModels : TaskStart(i))
    /\ WF_vars(FanOutReturns)
    /\ WF_vars(DeadlineFires)
    /\ WF_vars(\E s \in 1..MaxModels : SynthStart(s))
    /\ WF_vars(\E r \in 1..MaxModels : Finish(r))
    /\ WF_vars(Return)

---------------------------------------------------------------------------
(* Vocabulary of the properties *)

Terminal == phase \in {"Done", "Failed"}

\* call_models_parallel has returned for the request in flight
FanOutReturned == responses # <<>>

\* the invocation at position i ended with an answer of its backend
Succeeded(i) ==
    /\ tasks[i].st = "done"
    /\ ~tasks[i].exc
    /\ tasks[i].text = <<"Answer", models[i].model_id>>

SucceededCount == Cardinality({ i \in 1..Len(tasks) : Succeeded(i) })

Mentions(text, tok) == \E k \in 1..Len(text) : text[k] = tok

\* the text names the backend at position i and no other active backend
BelongsTo(text, i) ==
    /\ Mentions(text, models[i].name) \/ Mentions(text, models[i].model_id)
    /\ \A j \in 1..Len(models) :
          j # i => /\ ~Mentions(text, models[j].name)
                   /\ ~Mentions(text, models[j].model_id)

IsTimeoutMarker(text, i) ==
    text = <<"Timeout", "error", "for", "model", models[i].name>>

---------------------------------------------------------------------------
(* C1..C10 *)

\* C1: whatever the order in which the invocations completed and however each
\* ended, call_models_parallel returns one outcome per backend, and the outcome
\* at position i is the one of the backend at position i.
C1_OutcomesAlignedWithBackends ==
    FanOutReturned =>
        /\ Len(responses) = Len(models)
        /\ \A i \in 1..Len(responses) :
              /\ BelongsTo(responses[i], i)
              /\ (~timedOut /\ ~tasks[i].exc) => responses[i] = tasks[i].text

\* two backends, the second completed first, one answer and one failure
C1_Witness ==
    /\ FanOutReturned
    /\ ~timedOut
    /\ order = <<2, 1>>
    /\ Succeeded(1)
    /\ ~Succeeded(2)

\* C2: once the deadline has fired, every backend of the batch is reported with
\* its timeout marker, the ones that had answered included; an outcome list
\* holds timeout markers at every position or at none.
C2_TimeoutIsAllOrNothing ==
    FanOutReturned =>
        /\ timedOut => \A i \in 1..Len(models) : IsTimeoutMarker(responses[i], i)
        /\ (\E i \in 1..Len(responses) : StartsWith(responses[i], <<"Timeout", "error">>))
              => \A i \in 1..Len(responses) : IsTimeoutMarker(responses[i], i)

\* the deadline fired after one backend had answered and before another had
C2_Witness ==
    /\ timedOut
    /\ \E i, j \in 1..Len(tasks) : Succeeded(i) /\ tasks[j].st = "cancelled"
    /\ phase = "Failed"

\* C3: a request of which at least one invocation succeeded and the others
\* failed, by whichever path, ends with status success and counts exactly the
\* succeeded invocations as valid and the others as failed.
C3_ValidCountsSucceeded ==
    (FanOutReturned /\ ~timedOut /\ SucceededCount >= 1) =>
        /\ phase \in {"Synthesizing", "Done"}
        /\ phase = "Done" =>
              /\ result.status = "success"
              /\ result.valid_responses = SucceededCount
              /\ result.failed_responses = Len(models) - SucceededCount

\* C4: when every outcome of the fan-out is a failure (failure text, timeout
\* marker or the text of a caught exception), the request is Failed with the
\* all-failed error and no synthesis invocation was made.
C4_AllFailedNeverSynthesizes ==
    (FanOutReturned /\ (timedOut \/ SucceededCount = 0)) =>
        /\ phase = "Failed"
        /\ result = FailedResult("All models failed to provide valid responses")
        /\ synth.calls = 0

\* the arguments and the registry let the request through
C5_Acceptable ==
    /\ args.context.len >= 1 /\ args.context.nonblank
    /\ args.question.len >= 1 /\ args.question.nonblank
    /\ args.context.len <= 10000
    /\ args.question.len <= 5000
    /\ \E i \in 1..Len(config.models) :
          config.models[i].enabled /\ ~config.models[i].extra

\* C5: validation lets a request into Dispatching exactly when both arguments
\* are non-blank, the context has at most 10,000 characters, the question at
\* most 5,000 and some backend is active; every other request goes to Failed
\* with an error result and without any invocation or remote call.
C5_ValidationGate ==
    [][phase = "Validating" =>
          /\ C5_Acceptable => phase' \in {"Validating", "Dispatching"}
          /\ ~C5_Acceptable =>
                \/ phase' = "Validating"
                \/ /\ phase' = "Failed"
                   /\ result'.status = "failed"
                   /\ tasks' = <<>>
                   /\ remoteCalls' = 0
                   /\ synth'.calls = 0]_vars

\* a context of 10,001 characters was rejected
C5_Witness ==
    /\ phase = "Failed"
    /\ args.context = Str(10001, TRUE)
    /\ args.question = Str(5000, TRUE)
    /\ GetEnabledModels(config) # <<>>
    /\ result.status = "failed"

\* C6: a synthesis invocation exists only once every fan-out invocation of the
\* request has completed or the deadline has fired.
C6_SynthesisAfterFanOutSettled ==
    (phase \in {"Synthesizing", "Done"} \/ synth.calls > 0) =>
        \/ \A i \in 1..Len(tasks) : tasks[i].st = "done"
        \/ timedOut

\* the synthesis call is in flight after two fan-out invocations completed
C6_Witness ==
    /\ synth.st = "inflight"
    /\ Len(tasks) = 2
    /\ \A i \in 1..Len(tasks) : tasks[i].st = "done"

\* C7: a request whose synthesis invocation failed does not end with status
\* success, and at most one synthesis invocation is made.
C7_SynthesisFailureFailsRequest ==
    /\ synth.calls <= 1
    /\ (Terminal /\ synth.st = "returned" /\ StartsWith(synth.text, <<"Error", "from">>))
          => /\ phase = "Failed"
             /\ result.status = "failed"

\* C8: the synthesizer_model of a success result names the backend that made
\* the synthesis call.
C8_ReportedSynthesizerIsActual ==
    (phase = "Done" /\ result.status = "success") =>
        result.synthesizer_model = models[synth.model].name

\* C9: an accepted request reaches Done or Failed, the deadline timer being
\* the only thing assumed to happen.
C9_AcceptedRequestTerminates ==
    (phase \in {"Dispatching", "Synthesizing"}) ~> Terminal

\* C9 as amended: an accepted request reaches Done or Failed provided that,
\* besides the deadline timer firing, the remote call of the synthesis
\* invocation returns; backends of the fan-out may stay silent for ever.
C9_TerminatesIfSynthesisReturns ==
    WF_vars(\E out \in RemoteOutcomes : SynthReturns(out))
        => ((phase \in {"Dispatching", "Synthesizing"}) ~> Terminal)

\* every backend was called, none responded, and the deadline ended the request
C9_Witness ==
    /\ phase = "Failed"
    /\ timedOut
    /\ Len(tasks) = 2
    /\ remoteCalls = Len(tasks)
    /\ \A i \in 1..Len(tasks) : tasks[i].st = "cancelled"

\* the source exists and is not a well-formed configuration document
C10_StructurallyBroken ==
    \/ source.kind = "unparsable"
    \/ /\ source.kind = "document"
       /\ \/ source.doc.top # "mapping"
          \/ ~(AllSections \subseteq source.doc.sections)
          \/ ~source.doc.models_is_list
          \/ ~source.doc.api_keys_is_mapping

\* C10: a structurally broken source never yields a serving server, and the
\* defaults are used only for a missing or unreadable source.
C10_BrokenSourceFailsHard ==
    /\ (server # "boot" /\ C10_StructurallyBroken) => server = "exited"
    /\ fellBack => source.kind \in {"missing", "unreadable"}

---------------------------------------------------------------------------
(* C11..C20 *)

\* the positions of c.models that hold an enabled entry
C11_EnabledAt(c) == { i \in 1..Len(c.models) : c.models[i].enabled }

\* the first max_models of them
C11_KeptAt(c) ==
    { i \in C11_EnabledAt(c) :
         Cardinality({ j \in C11_EnabledAt(c) : j <= i }) <= c.max_models }

\* ms lists the entries of c at the positions at, in increasing order
C11_ListsInOrder(ms, c, at) ==
    /\ Len(ms) = Cardinality(at)
    /\ \A k \in 1..Len(ms) :
          \E i \in at : /\ Cardinality({ j \in at : j <= i }) = k
                        /\ ms[k] = c.models[i]

C11_NoDuplicateCodeName(c) ==
    \A i, j \in 1..Len(c.models) :
        i # j => c.models[i].code_name # c.models[j].code_name

C12_FailedInsideFacade ==
    \/ ~C5_Acceptable
    \/ FanOutReturned /\ (timedOut \/ SucceededCount = 0)
    \/ synth.st = "returned" /\ StartsWith(synth.text, <<"Error", "from">>)

\* C12: a request that failed inside the facade ends with a result made of an
\* error message, status failed and the log pointer and nothing else; the
\* handler raises nothing for the named operation; every result has status
\* success or failed.
C12_FailuresAreStructured ==
    /\ phase # "Idle" => ~raised
    /\ Terminal => result.status \in {"success", "failed"}
    /\ (Terminal /\ C12_FailedInsideFacade) =>
          /\ result.status = "failed"
          /\ DOMAIN result = {"status", "error", "debug"}
          /\ result.debug = [log_file |-> "log"]

\* the provider of the invoked backend has a client
C13_HasClient ==
    \/ models[1].provider = "openai" /\ clients.openai
    \/ models[1].provider = "openrouter" /\ clients.openrouter

\* C13: call_model ends with a text, never an exception; the text starts with
\* "Error from <name>" on every failure path, and a text without that prefix is
\* the non-blank content of the one remote call that was made.
C13_CallModelReturnsText ==
    tasks[1].st = "done" =>
        /\ ~tasks[1].exc
        /\ (IsBlank(args.question) \/ ~C13_HasClient
              \/ tasks[1].events = <<"calling", "error">>)
              => StartsWith(tasks[1].text, <<"Error", "from", models[1].name>>)
        /\ ~StartsWith(tasks[1].text, <<"Error", "from">>) =>
              /\ tasks[1].text = <<"Answer", models[1].model_id>>
              /\ tasks[1].events = <<"calling", "received">>
              /\ remoteCalls = 1

\* the remote call came back with a blank content and call_model returned
C13_Witness ==
    /\ tasks[1].st = "done"
    /\ remoteCalls = 1
    /\ Mentions(tasks[1].text, "Empty response received from model")

\* C14: an exception caught at the concurrency layer turns its own position,
\* and no other, into a text of the "Error from <name>" form that the facade's
\* failure detection recognises.
C14_CaughtExceptionIsUniformFailure ==
    (FanOutReturned /\ ~timedOut) =>
        \A i \in 1..Len(tasks) :
            /\ tasks[i].exc =>
                  /\ StartsWith(responses[i], <<"Error", "from", models[i].name>>)
                  /\ IsFailureText(responses[i])
            /\ ~tasks[i].exc => responses[i] = tasks[i].text

\* the events are one "calling" followed by one terminal event
C15_CallingThenTerminal(events) ==
    /\ Len(events) = 2
    /\ events[1] = "calling"
    /\ events[2] \in {"received", "error"}

\* C15: an invocation that has ended, by returning or by being abandoned in
\* flight when the deadline fired, has logged one calling event and then one
\* terminal event; one in flight has logged the calling event alone.
C15_EveryInvocationLogsTerminal ==
    \A i \in 1..Len(tasks) :
        /\ tasks[i].st = "inflight" => tasks[i].events = <<"calling">>
        /\ (tasks[i].st = "done" /\ ~tasks[i].exc) =>
              C15_CallingThenTerminal(tasks[i].events)
        /\ (tasks[i].st = "cancelled" /\ tasks[i].events # <<>>) =>
              C15_CallingThenTerminal(tasks[i].events)

\* C15 as amended: an invocation that returns has logged one calling event and
\* then one terminal event, received for an answer and error for a failure; one
\* in flight has logged the calling event alone; one abandoned in flight when
\* the deadline fired has logged the calling event and no terminal event.
C15_ReturnedInvocationLogsTerminal ==
    /\ \A i \in 1..Len(tasks) :
        /\ tasks[i].st = "inflight" => tasks[i].events = <<"calling">>
        /\ (tasks[i].st = "done" /\ ~tasks[i].exc) =>
              /\ C15_CallingThenTerminal(tasks[i].events)
              /\ tasks[i].events[2] = "received" <=> Succeeded(i)
        /\ tasks[i].st = "cancelled" => tasks[i].events = <<"calling">>
    /\ synth.st = "inflight" => synth.events = <<"calling">>
    /\ synth.st = "returned" =>
          /\ C15_CallingThenTerminal(synth.events)
          /\ synth.events[2] = "received"
                <=> synth.text = <<"Answer", models[synth.model].model_id>>

\* the deadline fired while an invocation was in flight
C15_Witness ==
    /\ timedOut
    /\ \E i \in 1..Len(tasks) :
          tasks[i].st = "cancelled" /\ tasks[i].events = <<"calling">>
    /\ \E i \in 1..Len(tasks) :
          tasks[i].st = "done" /\ tasks[i].events = <<"calling", "error">>

\* the classes a failure text reports
C16_Classes(text) ==
    { c \in {"rate-limit", "authentication", "empty-response", "generic-API"} :
        \/ c = "rate-limit" /\ Mentions(text, "Rate limit exceeded for")
        \/ c = "authentication" /\ Mentions(text, "Authentication failed for")
        \/ c = "empty-response" /\ Mentions(text, "Empty response received from model")
        \/ c = "generic-API" /\ Mentions(text, "API error for") }

\* C16: the failure text of an invocation whose remote call returned reports
\* exactly one class, and a blank content is reported as empty-response, not
\* as generic-API.
C16_OneClassPerFailure ==
    (tasks[1].st = "done" /\ remoteCalls = 1
        /\ StartsWith(tasks[1].text, <<"Error", "from">>)) =>
        /\ Cardinality(C16_Classes(tasks[1].text)) = 1
        /\ Mentions(tasks[1].text, "Empty response received from model")
              => C16_Classes(tasks[1].text) = {"empty-response"}

\* C17: a remote request is issued only for a non-blank question and a backend
\* whose provider has a client; otherwise the invocation ends in failure text
\* with no remote request; no invocation issues more than one.
C17_RemoteRequestGuard ==
    /\ remoteCalls <= 1
    /\ (remoteCalls = 1 \/ tasks[1].st = "inflight") =>
          ~IsBlank(args.question) /\ C13_HasClient
    /\ (tasks[1].st # "pending" /\ (IsBlank(args.question) \/ ~C13_HasClient)) =>
          /\ tasks[1].st = "done"
          /\ StartsWith(tasks[1].text, <<"Error", "from", models[1].name>>)
          /\ remoteCalls = 0

\* an invocation of a backend without a client ended without a remote request
C17_Witness ==
    /\ tasks[1].st = "done"
    /\ ~IsBlank(args.question)
    /\ models[1].provider = "openrouter"
    /\ ~clients.openrouter
    /\ remoteCalls = 0

\* C18: a fan-out that was launched returns, silent backends or not, once the
\* deadline timer fires; it returns only with every invocation completed or
\* with the deadline fired.
C18_FanOutTerminates ==
    /\ (phase = "Dispatching") ~> FanOutReturned
    /\ [][(phase = "Dispatching" /\ phase' # "Dispatching") =>
            \/ \A i \in 1..Len(tasks) : tasks[i].st = "done"
            \/ timedOut']_vars

\* the only backend was called and stayed silent until the deadline fired
C18_Witness ==
    /\ FanOutReturned
    /\ timedOut
    /\ Len(tasks) = 1
    /\ tasks[1].st = "cancelled"
    /\ remoteCalls = 1

\* C19: a request whose fan-out timed out is Failed with the all-failed error
\* and has made no synthesis invocation.
C19_TimedOutRequestFails ==
    timedOut =>
        /\ phase = "Failed"
        /\ result.status = "failed"
        /\ result.error = "All models failed to provide valid responses"
        /\ synth.st = "none"
        /\ synth.calls = 0

\* the deadline fired although both backends had answered
C19_Witness ==
    /\ timedOut
    /\ Len(tasks) = 2
    /\ \A i \in 1..Len(tasks) : Succeeded(i)

\* C20: a success result counts total = valid + failed responses, as many as
\* there are active backends and entries of models_used, at least one of them
\* valid, and models_used holds the model ids in active-backend order.
C20_SuccessResultCounts ==
    (phase = "Done" /\ result.status = "success") =>
        /\ result.total_responses = result.valid_responses + result.failed_responses
        /\ result.total_responses = Len(models)
        /\ Len(result.models_used) = Len(models)
        /\ result.valid_responses >= 1
        /\ result.failed_responses >= 0
        /\ \A k \in 1..Len(models) : result.models_used[k] = models[k].model_id
        /\ C11_ListsInOrder(models, config,
              { i \in 1..Len(config.models) :
                   \E k \in 1..Len(models) : models[k] = config.models[i] })

\* a success result over two backends of which one failed
C20_Witness ==
    /\ phase = "Done"
    /\ result.status = "success"
    /\ result.total_responses = 2
    /\ result.valid_responses = 1
    /\ result.failed_responses = 1

\* the number of times call_model was entered for position i: it logs one
\* "calling" event on entry, and an invocation that raised was entered
C21_Invocations(i) ==
    LET calling == Cardinality({ k \in 1..Len(tasks[i].events) :
                                   tasks[i].events[k] = "calling" })
    IN IF tasks[i].exc /\ calling = 0 THEN 1 ELSE calling

\* the invocations the fan-out has started
C21_FanOutInvocations ==
    Cardinality({ i \in 1..Len(tasks) : C21_Invocations(i) >= 1 })

\* C21: once the fan-out has returned every active backend has been invoked, and
\* by one task; at most one synthesis invocation is made, so a request with N
\* active backends issues at most N + 1 remote requests; a request that is Done
\* or Failed starts no further invocation; a Failed request has made no
\* synthesis invocation.
C21_InvocationBudget ==
    /\ [](/\ Len(tasks) = (IF phase \in {"Idle", "Validating"} \/ models = <<>>
                           THEN 0 ELSE Len(models))
          /\ \A i \in 1..Len(tasks) : C21_Invocations(i) <= 1
          /\ FanOutReturned => \A i \in 1..Len(tasks) : C21_Invocations(i) = 1
          /\ synth.calls <= 1
          /\ synth.calls = (IF synth.st \in {"inflight", "returned"} THEN 1 ELSE 0)
          /\ remoteCalls <= C21_FanOutInvocations + synth.calls
          /\ remoteCalls <= Len(models) + 1
          /\ phase = "Failed" => synth.calls = 0 /\ synth.st = "none")
    /\ [][(Terminal /\ phase' # "Idle") =>
            /\ tasks' = tasks
            /\ synth' = synth
            /\ remoteCalls' = remoteCalls]_vars

\* a request over two backends that is Done after three remote requests
C21_Witness ==
    /\ phase = "Done"
    /\ Len(models) = 2
    /\ \A i \in 1..Len(tasks) : tasks[i].st = "done"
    /\ synth.calls = 1
    /\ remoteCalls = 3

=============================================================================
